---- MODULE Spec2Model ----
(***************************************************************************)
(* A model of package xmldatetime (src/data.go): the strict scanner Parse, *)
(* the pattern parsers ParseRe / ParseRe2, the decoders                    *)
(* parseFractionalSecond and parseTz, the formatter stringify and the      *)
(* CustomTime XML adapter.                                                 *)
(*                                                                         *)
(* A Go string is a sequence of one-character strings.  A time.Time is a   *)
(* record of its wall-clock fields and its zone offset in seconds; the     *)
(* fields are the ones time.Date leaves after normalisation.  A Go panic   *)
(* (index out of range) is an outcome of its own, kind "panic".            *)
(***************************************************************************)
EXTENDS Integers, Sequences, FiniteSets, TLC

VARIABLES text, pc, rParse, rParseRe, rParseRe2, out, orig, cutAt,
          fracOut, tzOut, tm, c, err, calls, c0

vars == <<text, pc, rParse, rParseRe, rParseRe2, out, orig, cutAt,
          fracOut, tzOut, tm, c, err, calls, c0>>

(***************************************************************************)
(* Characters and decimal numerals                                         *)
(***************************************************************************)
DigitChars == <<"0", "1", "2", "3", "4", "5", "6", "7", "8", "9">>

IsDigit(ch) == \E i \in 1..10 : DigitChars[i] = ch

\* int(s[i] - '0') for a digit character
DigitVal(ch) == (CHOOSE i \in 1..10 : DigitChars[i] = ch) - 1

AllDigits(s) == \A i \in 1..Len(s) : IsDigit(s[i])

RECURSIVE DecVal(_)
DecVal(s) ==
  IF Len(s) = 0 THEN 0
  ELSE 10 * DecVal(SubSeq(s, 1, Len(s) - 1)) + DigitVal(s[Len(s)])

\* s[n:] of Go, n counted from 0
From(s, n) == SubSeq(s, n + 1, Len(s))

\* s[:n] of Go
Upto(s, n) == SubSeq(s, 1, n)

RECURSIVE Pow10(_)
Pow10(n) == IF n = 0 THEN 1 ELSE 10 * Pow10(n - 1)

\* Go's integer division, which truncates toward zero
QuoT(a, b) == IF a >= 0 THEN a \div b ELSE -((-a) \div b)

(***************************************************************************)
(* strconv.ParseInt(s, 10, 64) on the short strings the parsers hand it:   *)
(* an optional '+' or '-' and then one or more decimal digits.             *)
(***************************************************************************)
ParseInt(s) ==
  IF Len(s) = 0 THEN [v |-> 0, err |-> TRUE]
  ELSE LET signed == s[1] = "+" \/ s[1] = "-"
           body   == IF signed THEN From(s, 1) ELSE s
       IN  IF Len(body) = 0 \/ ~AllDigits(body)
           THEN [v |-> 0, err |-> TRUE]
           ELSE [v |-> IF s[1] = "-" THEN -DecVal(body) ELSE DecVal(body),
                 err |-> FALSE]

\* exactInt taking what is left of a short s instead of refusing it
exactIntShort(s, l) ==
  LET n == IF Len(s) < l THEN Len(s) ELSE l
      r == ParseInt(Upto(s, n))
  IN  [v |-> r.v, rest |-> From(s, n), err |-> r.err]

exactInt(s, l) ==
  IF Len(s) < l THEN [v |-> 0, rest |-> s, err |-> TRUE]
  ELSE LET r == ParseInt(Upto(s, l))
       IN  [v |-> r.v, rest |-> From(s, l), err |-> r.err]

(***************************************************************************)
(* time.Date on a fixed-offset location: the proleptic Gregorian calendar  *)
(* with every field normalised into the next larger one.                   *)
(***************************************************************************)
DaysFromCivil(y, m, d) ==
  LET yy  == IF m <= 2 THEN y - 1 ELSE y
      era == yy \div 400
      yoe == yy - era * 400
      mp  == (m + 9) % 12
      doy == (153 * mp + 2) \div 5 + d - 1
      doe == yoe * 365 + yoe \div 4 - yoe \div 100 + doy
  IN  era * 146097 + doe - 719468

CivilFromDays(z) ==
  LET zz  == z + 719468
      era == zz \div 146097
      doe == zz - era * 146097
      yoe == (doe - doe \div 1460 + doe \div 36524 - doe \div 146096) \div 365
      doy == doe - (365 * yoe + yoe \div 4 - yoe \div 100)
      mp  == (5 * doy + 2) \div 153
      d   == doy - (153 * mp + 2) \div 5 + 1
      m   == IF mp < 10 THEN mp + 3 ELSE mp - 9
      y   == yoe + era * 400
  IN  [year |-> IF m <= 2 THEN y + 1 ELSE y, month |-> m, day |-> d]

Date(year, month, day, hour, minute, second, nsec, offset) ==
  LET m0   == month - 1
      y1   == year + m0 \div 12
      m1   == (m0 % 12) + 1
      s1   == second + nsec \div 1000000000
      mi1  == minute + s1 \div 60
      h1   == hour + mi1 \div 60
      d1   == day + h1 \div 24
      days == DaysFromCivil(y1, m1, 1) + d1 - 1
      cv   == CivilFromDays(days)
  IN  [year |-> cv.year, month |-> cv.month, day |-> cv.day,
       hour |-> h1 % 24, minute |-> mi1 % 60, second |-> s1 % 60,
       nsec |-> nsec % 1000000000, offset |-> offset]

\* var not time.Time: the zero Time, 0001-01-01T00:00:00 UTC
not == Date(1, 1, 1, 0, 0, 0, 0, 0)

\* The instant of t on the UTC time line: <<day number, second of day, nsec>>
Instant(t) ==
  LET secs == t.hour * 3600 + t.minute * 60 + t.second - t.offset
  IN  <<DaysFromCivil(t.year, t.month, t.day) + secs \div 86400,
        secs % 86400, t.nsec>>

\* Time.Equal
Equal(t, u) == Instant(t) = Instant(u)

(***************************************************************************)
(* Outcomes of a parser                                                    *)
(***************************************************************************)
Ok(t) == [kind |-> "ok", t |-> t]

Err == [kind |-> "err", t |-> not]

Panic == [kind |-> "panic", t |-> not]

None == [kind |-> "none", t |-> not]

(***************************************************************************)
(* parseFractionalSecond                                                   *)
(***************************************************************************)
\* lines 112-119: the loop, from its state before an iteration to its state
\* at exit.  The tenth digit is left out of nsec: a Go int holds ten digits,
\* a 32-bit integer does not, and with ten digits read the function returns
\* an error, beside which every caller drops nsec.
RECURSIVE FracLoop(_, _, _, _)
FracLoop(s, i, nsec, lastDigit) ==
  IF i < Len(s) /\ i < 10 /\ IsDigit(s[i + 1])
  THEN FracLoop(s, i + 1,
                IF i < 9 THEN nsec * 10 + DigitVal(s[i + 1]) ELSE nsec,
                DigitVal(s[i + 1]))
  ELSE [i |-> i, nsec |-> nsec, lastDigit |-> lastDigit]

\* lines 111-137 with line 131 live: a fraction of more than nine digits is
\* cut to nanoseconds instead of refused
parseFractionalSecondTruncating(s) ==
  LET l == FracLoop(s, 0, 0, 0)
  IN  IF l.i = 0 THEN [nsec |-> l.nsec, rest |-> s, err |-> TRUE]
      ELSE IF l.lastDigit = 0 THEN [nsec |-> l.nsec, rest |-> s, err |-> TRUE]
      ELSE IF l.i > 9
      THEN [nsec |-> l.nsec, rest |-> From(s, l.i), err |-> FALSE]
      ELSE [nsec |-> l.nsec * Pow10(9 - l.i),
            rest |-> From(s, l.i), err |-> FALSE]

parseFractionalSecond(s) ==
  LET l == FracLoop(s, 0, 0, 0)
  IN  IF l.i = 0 THEN [nsec |-> l.nsec, rest |-> s, err |-> TRUE]
      ELSE IF l.lastDigit = 0 THEN [nsec |-> l.nsec, rest |-> s, err |-> TRUE]
      ELSE IF l.i > 9
      THEN [nsec |-> l.nsec, rest |-> From(s, l.i), err |-> TRUE]
      ELSE [nsec |-> l.nsec * Pow10(9 - l.i),
            rest |-> From(s, l.i), err |-> FALSE]

(***************************************************************************)
(* parseTz: the zone offset in seconds east of UTC                         *)
(***************************************************************************)
parseTz(s) ==
  IF Len(s) = 0 THEN [offset |-> 0, err |-> FALSE]
  ELSE IF Len(s) = 1 THEN [offset |-> 0, err |-> s[1] # "Z"]
  ELSE IF Len(s) = 6 THEN
    IF s[1] # "+" /\ s[1] # "-" THEN [offset |-> 0, err |-> TRUE]
    ELSE LET sign == IF s[1] = "+" THEN 1 ELSE -1
             hz   == exactInt(From(s, 1), 2)
         IN  IF hz.err THEN [offset |-> 0, err |-> TRUE]
             ELSE IF hz.v > 14 THEN [offset |-> 0, err |-> TRUE]
             ELSE IF hz.rest[1] # ":" THEN [offset |-> 0, err |-> TRUE]
             ELSE LET mz == exactInt(From(hz.rest, 1), 2)
                  IN  IF mz.err THEN [offset |-> 0, err |-> TRUE]
                      ELSE [offset |-> sign * ((hz.v * 60) + mz.v) * 60,
                            err |-> FALSE]
  ELSE [offset |-> 0, err |-> TRUE]

(***************************************************************************)
(* Parse, the strict scanner.  s[0] on an empty remainder panics.          *)
(***************************************************************************)
\* lines 96-108: the fraction, the zone and time.Date
ParseTail(year, month, day, hour, minute, s) ==
  LET second == exactInt(s, 2)
  IN  IF second.err THEN Err
      ELSE LET hasFrac == Len(second.rest) > 0 /\ second.rest[1] = "."
               fr == IF hasFrac
                     THEN parseFractionalSecond(From(second.rest, 1))
                     ELSE [nsec |-> 0, rest |-> second.rest, err |-> FALSE]
           IN  IF fr.err THEN Err
               ELSE LET loc == parseTz(fr.rest)
                    IN  IF loc.err THEN Err
                        ELSE Ok(Date(year, month, day, hour, minute,
                                     second.v, fr.nsec, loc.offset))

\* lines 74-90: the hour and the minute
ParseTime(year, month, day, s) ==
  LET hour == exactInt(s, 2)
  IN  IF hour.err THEN Err
      ELSE IF Len(hour.rest) = 0 THEN Panic
      ELSE IF hour.rest[1] # ":" THEN Err
      ELSE LET minute == exactInt(From(hour.rest, 1), 2)
           IN  IF minute.err THEN Err
               ELSE IF Len(minute.rest) = 0 THEN Panic
               ELSE IF minute.rest[1] # ":" THEN Err
               ELSE ParseTail(year, month, day, hour.v, minute.v,
                              From(minute.rest, 1))

\* lines 46-72: the year, the month and the day
ParseDate(sign, s) ==
  LET year == exactInt(s, 4)
  IN  IF year.err THEN Err
      ELSE IF Len(year.rest) = 0 THEN Panic
      ELSE IF year.rest[1] # "-" THEN Err
      ELSE LET month == exactInt(From(year.rest, 1), 2)
           IN  IF month.err THEN Err
               ELSE IF Len(month.rest) = 0 THEN Panic
               ELSE IF month.rest[1] # "-" THEN Err
               ELSE LET day == exactInt(From(month.rest, 1), 2)
                    IN  IF day.err THEN Err
                        ELSE IF Len(day.rest) = 0 THEN Panic
                        ELSE IF day.rest[1] # "T" THEN Err
                        ELSE ParseTime(year.v * sign, month.v, day.v,
                                       From(day.rest, 1))

Parse(s) ==
  IF Len(s) = 0 THEN Panic
  ELSE IF s[1] = "-" THEN ParseDate(-1, From(s, 1))
  ELSE IF s[1] = "+" THEN Err
  ELSE ParseDate(1, s)

(***************************************************************************)
(* xmlDateTimeRe.FindStringSubmatch: the pattern is anchored at both ends  *)
(* and has one way to match, so the match is a left-to-right scan.  The    *)
(* result holds Go's sub[i] at index i + 1; no match is the empty result.  *)
(***************************************************************************)
\* The digits at the head of s: \d+ is greedy and nothing after it starts
\* with a digit
RECURSIVE DigitRun(_, _)
DigitRun(s, i) ==
  IF i < Len(s) /\ IsDigit(s[i + 1]) THEN DigitRun(s, i + 1) ELSE i

\* -?\d{4}-\d{2}-\d{2}T\d{2}:\d{2}:\d{2} at the head of b (the '-?' taken)
ReFixed(b) ==
  /\ Len(b) >= 19
  /\ AllDigits(SubSeq(b, 1, 4)) /\ b[5] = "-"
  /\ AllDigits(SubSeq(b, 6, 7)) /\ b[8] = "-"
  /\ AllDigits(SubSeq(b, 9, 10)) /\ b[11] = "T"
  /\ AllDigits(SubSeq(b, 12, 13)) /\ b[14] = ":"
  /\ AllDigits(SubSeq(b, 15, 16)) /\ b[17] = ":"
  /\ AllDigits(SubSeq(b, 18, 19))

\* (?:(?:([+-]\d{2}):(\d{2}))|Z)?$ on the whole remainder z
ReZone(z) ==
  \/ Len(z) = 0
  \/ z = <<"Z">>
  \/ /\ Len(z) = 6
     /\ z[1] = "+" \/ z[1] = "-"
     /\ AllDigits(SubSeq(z, 2, 3)) /\ z[4] = ":"
     /\ AllDigits(SubSeq(z, 5, 6))

xmlDateTimeRe(s) ==
  LET neg  == Len(s) > 0 /\ s[1] = "-"
      b    == IF neg THEN From(s, 1) ELSE s
      r    == From(b, 19)
      dot  == Len(r) > 0 /\ r[1] = "."
      k    == IF dot THEN DigitRun(From(r, 1), 0) ELSE 0
      frac == IF dot THEN SubSeq(r, 2, k + 1) ELSE <<>>
      z    == IF dot THEN From(r, k + 1) ELSE r
  IN  IF ~ReFixed(b) \/ (dot /\ k = 0) \/ ~ReZone(z) THEN <<>>
      ELSE << s,
              IF neg THEN <<"-">> \o SubSeq(b, 1, 4) ELSE SubSeq(b, 1, 4),
              SubSeq(b, 6, 7), SubSeq(b, 9, 10), SubSeq(b, 12, 13),
              SubSeq(b, 15, 16), SubSeq(b, 18, 19), frac,
              IF Len(z) = 6 THEN SubSeq(z, 1, 3) ELSE <<>>,
              IF Len(z) = 6 THEN SubSeq(z, 5, 6) ELSE <<>> >>

\* sub[i] of Go
Sub(sub, i) == sub[i + 1]

(***************************************************************************)
(* ParseRe and ParseRe2                                                    *)
(***************************************************************************)
\* lines 155-168: the loop over the six fields; the values decoded so far
\* are in res, and an error ends the loop
RECURSIVE ReFields(_, _, _)
ReFields(sub, consumed, res) ==
  IF consumed > 6 THEN [res |-> res, err |-> FALSE]
  ELSE LET w == ParseInt(Sub(sub, consumed))
       IN  IF w.err THEN [res |-> res, err |-> TRUE]
           ELSE ReFields(sub, consumed + 1, Append(res, w.v))

\* lines 177-190 and 254-267: the zone of the pattern parsers
ReLoc(sub) ==
  IF Len(sub) >= 9 /\ (Len(Sub(sub, 8)) # 0 \/ Len(Sub(sub, 9)) # 0)
  THEN LET tmh == ParseInt(Sub(sub, 8))
       IN  IF tmh.err THEN [offset |-> 0, err |-> TRUE]
           ELSE IF tmh.v > 14 THEN [offset |-> 0, err |-> TRUE]
           ELSE LET tmm == ParseInt(Sub(sub, 9))
                IN  IF tmm.err THEN [offset |-> 0, err |-> TRUE]
                    ELSE [offset |-> ((tmh.v * 60) + tmm.v) * 60,
                          err |-> FALSE]
  ELSE [offset |-> 0, err |-> FALSE]

\* lines 169-175 and 247-253: the fraction of the pattern parsers
ReFrac(sub) ==
  IF Len(Sub(sub, 7)) # 0
  THEN LET fr == parseFractionalSecond(Sub(sub, 7))
       IN  [nsec |-> fr.nsec, err |-> fr.err]
  ELSE [nsec |-> 0, err |-> FALSE]

ParseRe(s) ==
  LET sub == xmlDateTimeRe(s)
  IN  IF Len(sub) = 0 THEN Err
      ELSE LET f == ReFields(sub, 1, <<>>)
           IN  IF f.err THEN Err
               ELSE LET fr == ReFrac(sub)
                    IN  IF fr.err THEN Err
                        ELSE LET loc == ReLoc(sub)
                             IN  IF loc.err THEN Err
                                 ELSE Ok(Date(f.res[1], f.res[2], f.res[3],
                                              f.res[4], f.res[5], f.res[6],
                                              fr.nsec, loc.offset))

ParseRe2(s) ==
  LET sub == xmlDateTimeRe(s)
  IN  IF Len(sub) = 0 THEN Err
      ELSE LET year   == ParseInt(Sub(sub, 1))
               month  == ParseInt(Sub(sub, 2))
               day    == ParseInt(Sub(sub, 3))
               hour   == ParseInt(Sub(sub, 4))
               minute == ParseInt(Sub(sub, 5))
               second == ParseInt(Sub(sub, 6))
           IN  IF year.err \/ month.err \/ day.err
                  \/ hour.err \/ minute.err \/ second.err THEN Err
               ELSE LET fr == ReFrac(sub)
                    IN  IF fr.err THEN Err
                        ELSE LET loc == ReLoc(sub)
                             IN  IF loc.err THEN Err
                                 ELSE Ok(Date(year.v, month.v, day.v, hour.v,
                                              minute.v, second.v,
                                              fr.nsec, loc.offset))

(***************************************************************************)
(* stringify                                                               *)
(***************************************************************************)
\* The decimal digits of n >= 0
RECURSIVE Digits(_)
Digits(n) ==
  IF n < 10 THEN <<DigitChars[n + 1]>>
  ELSE Digits(n \div 10) \o <<DigitChars[(n % 10) + 1]>>

RECURSIVE ZeroPad(_, _)
ZeroPad(d, w) == IF Len(d) >= w THEN d ELSE ZeroPad(<<"0">> \o d, w)

\* fmt's %0wd: the sign takes one column of the width
Sprintf0(n, w) ==
  IF n < 0 THEN <<"-">> \o ZeroPad(Digits(-n), w - 1)
  ELSE ZeroPad(Digits(n), w)

\* time's appendInt: the width is that of the digits, the sign comes extra
AppendInt(n, w) ==
  IF n < 0 THEN <<"-">> \o ZeroPad(Digits(-n), w) ELSE ZeroPad(Digits(n), w)

\* t.Format("2006-01-02T15:04:05")
Format(t) ==
  AppendInt(t.year, 4) \o <<"-">> \o AppendInt(t.month, 2) \o <<"-">>
    \o AppendInt(t.day, 2) \o <<"T">> \o AppendInt(t.hour, 2) \o <<":">>
    \o AppendInt(t.minute, 2) \o <<":">> \o AppendInt(t.second, 2)

\* strings.TrimRight(s, "0")
RECURSIVE TrimRight0(_)
TrimRight0(s) ==
  IF Len(s) > 0 /\ s[Len(s)] = "0" THEN TrimRight0(Upto(s, Len(s) - 1))
  ELSE s

\* lines 331-341: the offset suffix
ZoneSuffix(offset) ==
  IF offset # 0
  THEN LET minutes == QuoT(offset, 60)
           hours   == QuoT(minutes, 60)
       IN  (IF hours > 0 THEN <<"+">> ELSE <<>>)
             \o Sprintf0(hours, 3) \o <<":">>
             \o Sprintf0(minutes - 60 * hours, 2)
  ELSE <<>>

stringify(t) ==
  Format(t)
    \o (IF t.nsec > 0
        THEN TrimRight0(<<".">> \o Sprintf0(t.nsec, 9))
        ELSE <<>>)
    \o ZoneSuffix(t.offset)

\* cutOut of the tests: s without the character at index i (from 0)
cutOut(s, i) ==
  IF i = 0 THEN From(s, 1)
  ELSE IF i = Len(s) - 1 THEN Upto(s, i)
  ELSE Upto(s, i) \o From(s, i + 1)

(***************************************************************************)
(* CustomTime                                                              *)
(***************************************************************************)
\* UnmarshalXML storing Parse's value before it looks at the error
UnmarshalTimeEager(ct, r) == r.t

\* lines 318-323: c.Time after UnmarshalXML, given the receiver's Time and
\* Parse's outcome r
UnmarshalTime(ct, r) == IF r.kind = "err" THEN ct ELSE r.t

\* lines 318-323: the error UnmarshalXML returns (TRUE: non-nil)
UnmarshalErr(r) == r.kind = "err"

(***************************************************************************)
(* Bounds of the inputs                                                    *)
(***************************************************************************)
MaxDay == 32

MaxZoneHour == 15

MaxFracLen == 10

MaxTzLen == 6

MaxOffsetMinutes == 899

MaxCalls == 3

(***************************************************************************)
(* Input texts                                                             *)
(***************************************************************************)
D2(n) == <<DigitChars[(n \div 10) + 1], DigitChars[(n % 10) + 1]>>

D4(n) == D2(n \div 100) \o D2(n % 100)

SeqsUpTo(A, n) == UNION {[1..k -> A] : k \in 0..n}

Prefixes(s) == {Upto(s, k) : k \in 0..Len(s)}

Signs == {<<"+">>, <<"-">>}

YearSigns == {<<>>} \cup Signs

YearFields ==
  {D4(2016), D4(2017), <<"+", "1", "2", "3">>, <<"-", "1", "2", "3">>}

MonthFields == {D2(2), D2(8), D2(13), <<"+", "8">>, <<"-", "1">>}

DayFields == {D2(d) : d \in {16} \cup 28..MaxDay}

DateTexts ==
  {n \o y \o <<"-">> \o m \o <<"-">> \o d :
     n \in YearSigns, y \in YearFields, m \in MonthFields, d \in DayFields}

TimeTexts ==
  {<<"T">> \o D2(h) \o <<":">> \o D2(mi) \o <<":">> \o D2(sc) :
     h \in {13, 24}, mi \in {7, 60}, sc \in {0, 60}}

FracTexts ==
  { <<>>, <<".">>, <<".", "1">>, <<".", "1", "2">>, <<".", "1", "0">>, <<".", "0", "9", "2", "5", "1">>, <<".", "0", "0", "0", "0", "0", "0", "0", "0", "1">>, <<".", "1", "2", "3", "4", "5", "6", "7", "8", "9", "1">> }

ZoneFields == {D2(h) : h \in {0, 2} \cup 14..MaxZoneHour}
                \cup {<<"+", "2">>, <<"-", "2">>}

ZoneTexts ==
  {sg \o h \o <<":">> \o D2(m) : sg \in Signs, h \in ZoneFields, m \in {0, 30}}
    \cup { <<>>, <<"Z">>, <<"z">>, <<"+", "0", "2", "0", "0">>, <<"+", "0", "2", ":", "0", "0", "0">>, <<"+", "0", "2", ":", "-", "5">> }

RefDate == <<"2", "0", "1", "7", "-", "0", "8", "-", "1", "6">>

RefTime == <<"T", "1", "3", ":", "0", "7", ":", "0", "0">>

\* fullS of TestParseIncorrect
fullS == <<"2", "0", "1", "7", "-", "0", "8", "-", "1", "6", "T", "1", "3", ":", "0", "7", ":", "0", "0", ".", "1", "+", "0", "2", ":", "0", "0">>

Corpus ==
  {d \o RefTime \o f \o z :
     d \in DateTexts, f \in {<<>>, <<".", "1", "2">>}, z \in {<<>>, <<"Z">>, <<"-", "0", "2", ":", "3", "0">>}}
    \cup {RefDate \o t \o f \o z :
            t \in TimeTexts, f \in FracTexts, z \in ZoneTexts}
    \cup Prefixes(fullS) \cup {<<"-">>}

FracAlphabet == {"0", "9", "Z"}

TzAlphabet == {"+", "-", "1", "5", ":", "Z"}

TzInputs ==
  SeqsUpTo(TzAlphabet, MaxTzLen)
    \cup {z \o <<ch>> : z \in ZoneTexts, ch \in TzAlphabet}

XmlTexts ==
  { <<>>,
    <<"2", "0", "1", "7", "-", "0", "8", "-", "1", "6", "T", "1", "3", ":", "0", "7", ":", "0", "0", ".", "0", "9", "2", "5", "1", "+", "0", "2", ":", "0", "0">>,
    <<"2", "0", "1", "7", "-", "0", "8", "-", "1", "6", "T", "1", "1", ":", "0", "7", ":", "0", "0", ".", "0", "9", "2", "5", "1", "Z">>,
    <<"2", "0", "1", "7", "-", "0", "8", "-", "1", "6", "T", "1", "3", ":", "0", "7", ":", "0", "0", ".", "1", "0">>,
    <<"2", "0", "1", "7", "-", "0", "8", "-", "1", "6", "T", "1", "3", ":", "0", "7", ":", "0">> }

Stamps ==
  {Date(2017, 8, 16, 11, 7, 0, ns, 60 * m) :
     ns \in {0, 92510000}, m \in (-MaxOffsetMinutes)..MaxOffsetMinutes}

(***************************************************************************)
(* The parsers and the formatter on one text, as the tests drive them:     *)
(* Parse, ParseRe, ParseRe2, then stringify of what Parse returned, then   *)
(* the same on the text with one character cut out.                        *)
(***************************************************************************)
Unused == <<"unused">>

IdleParsers ==
  /\ rParse = None /\ rParseRe = None /\ rParseRe2 = None
  /\ out = <<>> /\ orig = <<>> /\ cutAt = -1

IdleDecoders == fracOut = Unused /\ tzOut = Unused /\ tm = not

IdleXml == c = not /\ c0 = not /\ err = FALSE /\ calls = <<>>

Init ==
  /\ text \in Corpus
  /\ pc = "Parse"
  /\ IdleParsers /\ IdleDecoders /\ IdleXml

DoParse ==
  /\ pc = "Parse"
  /\ rParse' = Parse(text)
  /\ pc' = IF rParse'.kind = "panic" THEN "panicked" ELSE "ParseRe"
  /\ UNCHANGED <<text, rParseRe, rParseRe2, out, orig, cutAt,
                 fracOut, tzOut, tm, c, err, calls, c0>>

DoParseRe ==
  /\ pc = "ParseRe"
  /\ rParseRe' = ParseRe(text)
  /\ pc' = "ParseRe2"
  /\ UNCHANGED <<text, rParse, rParseRe2, out, orig, cutAt,
                 fracOut, tzOut, tm, c, err, calls, c0>>

DoParseRe2 ==
  /\ pc = "ParseRe2"
  /\ rParseRe2' = ParseRe2(text)
  /\ pc' = "stringify"
  /\ UNCHANGED <<text, rParse, rParseRe, out, orig, cutAt,
                 fracOut, tzOut, tm, c, err, calls, c0>>

DoStringify ==
  /\ pc = "stringify"
  /\ rParse.kind = "ok"
  /\ out' = stringify(rParse.t)
  /\ pc' = "done"
  /\ UNCHANGED <<text, rParse, rParseRe, rParseRe2, orig, cutAt,
                 fracOut, tzOut, tm, c, err, calls, c0>>

NoStringify ==
  /\ pc = "stringify"
  /\ rParse.kind = "err"
  /\ pc' = "done"
  /\ UNCHANGED <<text, rParse, rParseRe, rParseRe2, out, orig, cutAt,
                 fracOut, tzOut, tm, c, err, calls, c0>>

Accepted ==
  rParse.kind = "ok" \/ rParseRe.kind = "ok" \/ rParseRe2.kind = "ok"

\* TestParseIncorrect's loop body, on any text a parser accepted
DoCutOut ==
  /\ pc = "done"
  /\ cutAt = -1
  /\ Accepted
  /\ \E i \in 0..(Len(text) - 1) :
       /\ text' = cutOut(text, i)
       /\ orig' = text
       /\ cutAt' = i
  /\ rParse' = None /\ rParseRe' = None /\ rParseRe2' = None
  /\ out' = <<>>
  /\ pc' = "Parse"
  /\ UNCHANGED <<fracOut, tzOut, tm, c, err, calls, c0>>

Next ==
  \/ DoParse \/ DoParseRe \/ DoParseRe2
  \/ DoStringify \/ NoStringify \/ DoCutOut

Spec == Init /\ [][Next]_vars

(***************************************************************************)
(* parseFractionalSecond on every short text                               *)
(***************************************************************************)
InitFrac ==
  /\ text \in SeqsUpTo(FracAlphabet, MaxFracLen)
  /\ pc = "parseFractionalSecond"
  /\ fracOut = Unused /\ tzOut = Unused /\ tm = not
  /\ IdleParsers /\ IdleXml

DoFrac ==
  /\ pc = "parseFractionalSecond"
  /\ fracOut' = parseFractionalSecond(text)
  /\ pc' = "done"
  /\ UNCHANGED <<text, rParse, rParseRe, rParseRe2, out, orig, cutAt,
                 tzOut, tm, c, err, calls, c0>>

NextFrac == DoFrac

SpecFrac == InitFrac /\ [][NextFrac]_vars

(***************************************************************************)
(* parseTz on every short text                                             *)
(***************************************************************************)
InitTz ==
  /\ text \in TzInputs
  /\ pc = "parseTz"
  /\ fracOut = Unused /\ tzOut = Unused /\ tm = not
  /\ IdleParsers /\ IdleXml

DoTz ==
  /\ pc = "parseTz"
  /\ tzOut' = parseTz(text)
  /\ pc' = "done"
  /\ UNCHANGED <<text, rParse, rParseRe, rParseRe2, out, orig, cutAt,
                 fracOut, tm, c, err, calls, c0>>

NextTz == DoTz

SpecTz == InitTz /\ [][NextTz]_vars

(***************************************************************************)
(* stringify on timestamps of every whole-minute offset                    *)
(***************************************************************************)
InitFmt ==
  /\ tm \in Stamps
  /\ text = <<>>
  /\ pc = "stringify"
  /\ fracOut = Unused /\ tzOut = Unused
  /\ IdleParsers /\ IdleXml

DoFmt ==
  /\ pc = "stringify"
  /\ out' = stringify(tm)
  /\ pc' = "done"
  /\ UNCHANGED <<text, rParse, rParseRe, rParseRe2, orig, cutAt,
                 fracOut, tzOut, tm, c, err, calls, c0>>

NextFmt == DoFmt

SpecFmt == InitFmt /\ [][NextFmt]_vars

(***************************************************************************)
(* One CustomTime under a sequence of UnmarshalXML and MarshalXML calls.   *)
(* calls is the history of the element texts handed to UnmarshalXML, c0    *)
(* the receiver's first Time.                                              *)
(***************************************************************************)
InitXml ==
  /\ c0 \in {not, Date(2017, 8, 16, 13, 7, 0, 92510000, 7200)}
  /\ c = c0
  /\ err = FALSE
  /\ calls = <<>>
  /\ text = <<>>
  /\ pc = "ready"
  /\ IdleParsers /\ IdleDecoders

UnmarshalXML ==
  /\ pc = "ready"
  /\ Len(calls) < MaxCalls
  /\ \E v \in XmlTexts :
       LET r == Parse(v)
       IN  /\ text' = v
           /\ calls' = Append(calls, v)
           /\ IF r.kind = "panic"
              THEN pc' = "panicked" /\ UNCHANGED <<c, err>>
              ELSE /\ c' = UnmarshalTime(c, r)
                   /\ err' = UnmarshalErr(r)
                   /\ pc' = "ready"
  /\ UNCHANGED <<rParse, rParseRe, rParseRe2, out, orig, cutAt,
                 fracOut, tzOut, tm, c0>>

MarshalXML ==
  /\ pc = "ready"
  /\ out' = stringify(c)
  /\ UNCHANGED <<text, pc, rParse, rParseRe, rParseRe2, orig, cutAt,
                 fracOut, tzOut, tm, c, err, calls, c0>>

NextXml == UnmarshalXML \/ MarshalXML

SpecXml == InitXml /\ [][NextXml]_vars

(***************************************************************************)
(* Properties                                                              *)
(***************************************************************************)
Ran == {rParse, rParseRe, rParseRe2} \ {None}

AllRan == pc \in {"stringify", "done"}

\* The text after its optional leading '-'
Body(s) == IF Len(s) > 0 /\ s[1] = "-" THEN From(s, 1) ELSE s

\* C1: Parse returns a timestamp or an error on every text; it never aborts
\* on an index out of range.
C1_ParseNeverAborts == rParse.kind # "panic"

IsLeap(y) == y % 4 = 0 /\ (y % 100 # 0 \/ y % 400 = 0)

LastDay(y, m) ==
  IF m = 2 THEN (IF IsLeap(y) THEN 29 ELSE 28)
  ELSE IF m \in {4, 6, 9, 11} THEN 30 ELSE 31

\* A lexically well-formed text whose fields are no calendar instant
NotACalendarInstant(s) ==
  /\ Len(xmlDateTimeRe(s)) # 0
  /\ LET b  == Body(s)
         y  == DecVal(SubSeq(b, 1, 4)) * (IF s[1] = "-" THEN -1 ELSE 1)
         m  == DecVal(SubSeq(b, 6, 7))
         d  == DecVal(SubSeq(b, 9, 10))
         h  == DecVal(SubSeq(b, 12, 13))
         mi == DecVal(SubSeq(b, 15, 16))
         sc == DecVal(SubSeq(b, 18, 19))
     IN  \/ m \notin 1..12
         \/ d \notin 1..LastDay(y, m)
         \/ h > 23 \/ mi > 59 \/ sc > 59

\* C2: on a lexically well-formed text whose fields are not a real calendar
\* instant, Parse, ParseRe and ParseRe2 each return an error, never a
\* timestamp normalised to another date.
C2_OutOfRangeIsError ==
  NotACalendarInstant(text) => \A r \in Ran : r.kind = "err"

\* C3: on every text Parse, ParseRe and ParseRe2 all return an error, or all
\* succeed with the same instant.
C3_ParsersAgree ==
  AllRan =>
    \/ rParse.kind = "err" /\ rParseRe.kind = "err" /\ rParseRe2.kind = "err"
    \/ /\ rParse.kind = "ok" /\ rParseRe.kind = "ok" /\ rParseRe2.kind = "ok"
       /\ Equal(rParse.t, rParseRe.t)
       /\ Equal(rParse.t, rParseRe2.t)

\* A text in canonical form: well-formed, no 'Z', a fraction that does not
\* end in '0', an offset suffix only with a value other than zero
Canonical(s) ==
  LET sub == xmlDateTimeRe(s)
  IN  /\ Len(sub) # 0
      /\ s[Len(s)] # "Z"
      /\ Len(Sub(sub, 7)) # 0 => Sub(sub, 7)[Len(Sub(sub, 7))] # "0"
      /\ Len(Sub(sub, 8)) # 0 =>
           DecVal(SubSeq(Sub(sub, 8), 2, 3)) # 0 \/ DecVal(Sub(sub, 9)) # 0

\* C4: stringify(Parse(s)) is s, character for character, for every
\* canonical s that Parse accepts (s taken to name a calendar instant: what
\* Parse does with another s is C2's matter).
C4_RoundTrip ==
  (/\ pc = "done" /\ rParse.kind = "ok"
   /\ Canonical(text) /\ ~NotACalendarInstant(text))
    => out = text

\* The suffix of an offset of m whole minutes: nothing for zero, else the
\* sign, |m| div 60 and |m| mod 60 as two digits each around a ':'
OffsetSuffix(m) ==
  LET a == IF m < 0 THEN -m ELSE m
  IN  IF m = 0 THEN <<>>
      ELSE (IF m > 0 THEN <<"+">> ELSE <<"-">>)
             \o D2(a \div 60) \o <<":">> \o D2(a % 60)

\* C5: stringify ends a timestamp of a non-zero whole-minute offset m,
\* |m| <= 14*60+59, with exactly sign, hh, ':', mm, and a timestamp of offset
\* zero with no suffix.
C5_OffsetSuffix ==
  pc = "done" =>
    out = stringify([tm EXCEPT !.offset = 0]) \o OffsetSuffix(tm.offset \div 60)

AllRejected == \A r \in Ran : r.kind = "err"

\* The index of the '.' of a fraction in s, counted from 0
DotIndex(s) == IF s[1] = "-" THEN 20 ELSE 19

\* The characters of s whose deletion can leave a well-formed text: the
\* leading '-', a final 'Z', and a digit of a fraction of two or more digits
Exempt(s, i) ==
  \/ i = 0 /\ s[1] = "-"
  \/ i = Len(s) - 1 /\ s[Len(s)] = "Z"
  \/ /\ Len(s) > DotIndex(s)
     /\ s[DotIndex(s) + 1] = "."
     /\ DigitRun(From(s, DotIndex(s) + 1), 0) >= 2
     /\ i > DotIndex(s)
     /\ i <= DotIndex(s) + DigitRun(From(s, DotIndex(s) + 1), 0)

\* C6 as first stated: deleting any one character of an accepted text gives
\* a text that Parse, ParseRe and ParseRe2 reject with an error.  (Stated of
\* the well-formed texts of a calendar instant that Parse accepts, which
\* every reading of "accepted" includes.)
C6_AnyDeletionRejected ==
  (/\ cutAt >= 0
   /\ Len(xmlDateTimeRe(orig)) # 0 /\ ~NotACalendarInstant(orig)
   /\ Parse(orig).kind = "ok")
    => AllRejected

\* C6: deleting one character of an accepted text, other than the leading
\* '-' of the year, a final 'Z', or a digit of a fraction that has two or
\* more digits, gives a text that Parse, ParseRe and ParseRe2 each reject
\* with an error.
C6_DeletionRejected == (cutAt >= 0 /\ ~Exempt(orig, cutAt)) => AllRejected

C6_Witness ==
  /\ cutAt >= 0 /\ ~Exempt(orig, cutAt)
  /\ pc = "done"
  /\ rParse = Err /\ rParseRe = Err /\ rParseRe2 = Err

\* The places of the year, month, day, hour, minute and second digits in
\* the text after its optional leading '-', counted from 1
FieldPlaces == {1, 2, 3, 4, 6, 7, 9, 10, 12, 13, 15, 16, 18, 19}

\* C7: Parse returns an error whenever a character in the place of a year,
\* month, day, hour, minute or second digit is not a decimal digit; a '+' or
\* '-' there is never read as a sign.
C7_NonDigitIsError ==
  (/\ rParse # None
   /\ \E p \in FieldPlaces :
        p <= Len(Body(text)) /\ ~IsDigit(Body(text)[p]))
    => rParse.kind = "err"

\* sign, two digits hh <= 14, ':', two digits mm
OffsetShape(s) ==
  /\ Len(s) = 6
  /\ s[1] \in {"+", "-"}
  /\ IsDigit(s[2]) /\ IsDigit(s[3]) /\ s[4] = ":"
  /\ IsDigit(s[5]) /\ IsDigit(s[6])
  /\ DecVal(SubSeq(s, 2, 3)) <= 14

\* C8: parseTz succeeds on exactly the empty text, "Z" and sign hh ':' mm
\* with hh <= 14, returning UTC for the first two and sign*(60*hh+mm)
\* minutes for the third; on every other text it returns an error.
C8_TzShapes ==
  pc = "done" =>
    /\ tzOut.err = ~(text = <<>> \/ text = <<"Z">> \/ OffsetShape(text))
    /\ ~tzOut.err =>
         tzOut.offset =
           IF Len(text) < 6 THEN 0
           ELSE (IF text[1] = "-" THEN -1 ELSE 1) * 60
                  * (60 * DecVal(SubSeq(text, 2, 3))
                       + DecVal(SubSeq(text, 5, 6)))

\* The first k characters of s read as a fraction of a second, in ns
RECURSIVE LeftAligned(_, _)
LeftAligned(s, k) ==
  IF k = 0 THEN 0
  ELSE LeftAligned(s, k - 1) + DigitVal(s[k]) * Pow10(9 - k)

\* C9: parseFractionalSecond succeeds exactly when the text starts with a
\* run of k digits, 1 <= k <= 9, the last of them not '0'; it then returns
\* the run as left-aligned nanoseconds, in 1..999999999, and the text after
\* the run.  No run, ten or more digits, and a final '0' are errors.
C9_Fraction ==
  pc = "done" =>
    LET k    == DigitRun(text, 0)
        good == k >= 1 /\ k <= 9 /\ text[k] # "0"
    IN  /\ fracOut.err = ~good
        /\ good => /\ fracOut.nsec = LeftAligned(text, k)
                   /\ fracOut.nsec \in 1..999999999
                   /\ fracOut.rest = From(text, k)

C9_Witness ==
  /\ pc = "done"
  /\ ~fracOut.err
  /\ DigitRun(text, 0) = 9
  /\ fracOut.nsec = 9
  /\ Len(fracOut.rest) > 0

\* Parse's value on the last text of h that Parse accepts, or c0
RECURSIVE LastGood(_)
LastGood(h) ==
  IF Len(h) = 0 THEN c0
  ELSE IF Parse(h[Len(h)]).kind = "ok" THEN Parse(h[Len(h)]).t
  ELSE LastGood(Upto(h, Len(h) - 1))

\* C10: UnmarshalXML returns an error and leaves the stored Time alone when
\* Parse rejects the text, and stores Parse's value and returns nil when
\* Parse accepts it; so the stored Time is always its first value or the
\* value of the last text Parse accepted.
C10_StoredTime ==
  /\ c = LastGood(calls)
  /\ (pc = "ready" /\ Len(calls) > 0) =>
       err = (Parse(calls[Len(calls)]).kind = "err")

C10_Witness ==
  /\ pc = "ready"
  /\ Len(calls) >= 2
  /\ err
  /\ c # c0
  /\ Parse(calls[1]).kind = "ok"

====
